---- MODULE Spec2Model ----
(***************************************************************************)
(* Model of the simulation core of azure-iot-simulator:                    *)
(*   - MetricsCollector        (src/src/monitoring/metrics_collector.py)   *)
(*   - DeviceSimulation and SimulationEngine on the asyncio event loop     *)
(*                       (src/src/azure_integration/simulation_engine.py)  *)
(*   - VirtualDevice.send_message                                          *)
(*                       (src/src/azure_integration/device_client.py)      *)
(***************************************************************************)
EXTENDS Integers, Sequences, FiniteSets, TLC

(***************************************************************************)
(* Bounds of the model.                                                    *)
(***************************************************************************)
MaxTime == 1
MaxRecords == 3
MaxAfter == 1
HistorySize == 2
NumThreads == 2
MaxTasks == 5
MaxSims == 2
MaxCalls == 4
MaxN == 1
MaxErrors == 1
BurstCount == 2
MaxStep == 5

\* FieldConfig.step_size when the caller gives none, in thousandths
DefaultStepSize == 100

DeviceIds == {"d1", "d2"}

(***************************************************************************)
(* MetricsCollector state.  device_metrics is the defaultdict: a map from  *)
(* device id to a reference into heap, where the per-device dicts live, so *)
(* that two holders of the same inner dict see each other's writes.        *)
(***************************************************************************)
VARIABLES device_metrics, heap, system_metrics, message_history,
          error_history, start_time, last_update, now,
          snapshot, frozen, after, nSent, nErr,
          threads,
          azure, dev, sims, simulations, engine_running, tasks, ready,
          calls, emitted, attempt, returned, quiet,
          bus, gen, tpl

mvars == <<device_metrics, heap, system_metrics, message_history,
           error_history, start_time, last_update, now,
           snapshot, frozen, after, nSent, nErr>>
tvars == <<threads>>
svars == <<azure, dev, sims, simulations, engine_running, tasks, ready,
           calls, emitted, attempt, returned, quiet>>
ovars == <<bus, gen, tpl>>

NoTime == -1
NoRef == 0
Refs == 1 .. (2 * Cardinality(DeviceIds) + NumThreads)

\* the default factory of device_metrics
DefaultDeviceMetrics ==
    [message_count |-> 0, error_count |-> 0, last_message_time |-> NoTime,
     connection_status |-> "disconnected", simulation_status |-> "stopped"]

InitialSystemMetrics ==
    [total_messages |-> 0, total_errors |-> 0, messages_per_second |-> 0,
     active_devices |-> 0, connected_devices |-> 0]

EmptyMap == [d \in {} |-> NoRef]
NoSnapshot ==
    [taken |-> FALSE, system_metrics |-> InitialSystemMetrics,
     uptime_seconds |-> 0, total_devices |-> 0,
     device_metrics |-> EmptyMap,
     messages |-> <<>>, errors |-> <<>>, export_timestamp |-> 0,
     n_sent |-> 0, n_err |-> 0]

Range(f) == {f[x] : x \in DOMAIN f}

\* references held by running threads (a dict made by the default factory
\* and not yet stored, or the dict a thread is updating)
ThreadRefs(th) == {th[t].ref : t \in DOMAIN th} \ {NoRef}

\* references reachable from the collector, from the last exported snapshot
\* and from the threads
Live(dm, snap, th) == Range(dm) \cup Range(snap.device_metrics) \cup ThreadRefs(th)

\* memory management: an unreachable dict is reclaimed
Collect(h, dm, snap, th) ==
    [r \in Refs |-> IF r \in Live(dm, snap, th) THEN h[r] ELSE DefaultDeviceMetrics]

NewRef(dm, snap, th) == CHOOSE r \in Refs \ Live(dm, snap, th) :
                           \A q \in Refs \ Live(dm, snap, th) : r <= q

\* defaultdict.__getitem__: the map after the lookup of d
Lookup(dm, d) ==
    IF d \in DOMAIN dm THEN dm
    ELSE [x \in DOMAIN dm \cup {d} |->
             IF x = d THEN NewRef(dm, snapshot, threads) ELSE dm[x]]

\* a deque without maxlen
DequeAppendUnbounded(q, e) == Append(q, e)

\* deque(maxlen = history_size).append
DequeAppend(q, e) ==
    IF Len(q) < HistorySize THEN Append(q, e) ELSE Append(Tail(q), e)

RECURSIVE SumSeq(_)
SumSeq(q) == IF q = <<>> THEN 0 ELSE Head(q)[2] + SumSeq(Tail(q))

SelectSince(q, cutoff) == SelectSeq(q, LAMBDA e : e[1] >= cutoff)

MinuteSeconds == 60
HourSeconds == 3600

\* _update_rates, given the history after the append; messages_per_second
\* is kept as the sum of the recent counts (the value times 60)
RateDue == now - last_update >= 1
UpdatedRate(sm, hist) ==
    IF RateDue
    THEN [sm EXCEPT !.messages_per_second =
                      SumSeq(SelectSince(hist, now - MinuteSeconds))]
    ELSE sm

MInit ==
    /\ device_metrics = EmptyMap
    /\ heap = [r \in Refs |-> DefaultDeviceMetrics]
    /\ system_metrics = InitialSystemMetrics
    /\ message_history = <<>>
    /\ error_history = <<>>
    /\ start_time = 0
    /\ last_update = 0
    /\ now = 0
    /\ snapshot = NoSnapshot
    /\ frozen = EmptyMap
    /\ after = 0
    /\ nSent = 0
    /\ nErr = 0

TIdle == threads = [t \in {} |-> 0]

\* the wall clock advances
Tick ==
    /\ now < MaxTime
    /\ now' = now + 1
    /\ UNCHANGED <<device_metrics, heap, system_metrics, message_history,
                   error_history, start_time, last_update, snapshot, frozen,
                   nSent, nErr>>

\* line 43 left out: an ordinary bug of the aggregation
SentSystemMetricsNoTotal(sm) == sm

SentSystemMetrics(sm) == [sm EXCEPT !.total_messages = @ + 1]

record_message_sent(d) ==
    /\ nSent + nErr < MaxRecords
    /\ LET dm == Lookup(device_metrics, d)
           r == dm[d]
           hist == DequeAppend(message_history, <<now, 1>>)
           sm == SentSystemMetrics(system_metrics)
       IN /\ device_metrics' = dm
          /\ heap' = [heap EXCEPT ![r].message_count = @ + 1,
                                  ![r].last_message_time = now]
          /\ message_history' = hist
          /\ system_metrics' = UpdatedRate(sm, hist)
          /\ last_update' = IF RateDue THEN now ELSE last_update
    /\ nSent' = nSent + 1
    /\ UNCHANGED <<error_history, start_time, now, snapshot, frozen, nErr>>

record_message_error(d) ==
    /\ nSent + nErr < MaxRecords
    /\ LET dm == Lookup(device_metrics, d)
           r == dm[d]
       IN /\ device_metrics' = dm
          /\ heap' = [heap EXCEPT ![r].error_count = @ + 1]
    /\ system_metrics' = [system_metrics EXCEPT !.total_errors = @ + 1]
    /\ error_history' = DequeAppend(error_history, <<now, 1>>)
    /\ nErr' = nErr + 1
    /\ UNCHANGED <<message_history, start_time, last_update, now, snapshot,
                   frozen, nSent>>

IsConnected(e) == e.connection_status = "connected"
IsRunning(e) == e.simulation_status = "running"

ConnStatus(b) == IF b THEN "connected" ELSE "disconnected"
SimStatus(b) == IF b THEN "running" ELSE "stopped"

\* the counters moved on every update, changed or not
CounterDeltaUnguarded(old, new) == IF new THEN 1 ELSE -1

\* the change of a system counter for a status going from old to new
CounterDelta(old, new) ==
    IF new # old THEN (IF new THEN 1 ELSE -1) ELSE 0

update_device_status(d, connected, simulating) ==
    /\ LET dm == Lookup(device_metrics, d)
           r == dm[d]
           old_connected == heap[r].connection_status = "connected"
           old_simulating == heap[r].simulation_status = "running"
       IN /\ device_metrics' = dm
          /\ heap' = [heap EXCEPT
                        ![r].connection_status = ConnStatus(connected),
                        ![r].simulation_status = SimStatus(simulating)]
          /\ system_metrics' = [system_metrics EXCEPT
                !.connected_devices = @ + CounterDelta(old_connected, connected),
                !.active_devices = @ + CounterDelta(old_simulating, simulating)]
    /\ UNCHANGED <<message_history, error_history, start_time, last_update,
                   now, snapshot, frozen, nSent, nErr>>

\* get_device_metrics: the lookup goes through the defaultdict
get_device_metrics(d) ==
    /\ device_metrics' = Lookup(device_metrics, d)
    /\ UNCHANGED <<heap, system_metrics, message_history, error_history,
                   start_time, last_update, now, snapshot, frozen, nSent, nErr>>

ExportHours == 24

\* the values a holder of a device_metrics map reads through it
Deref(m) == [d \in DOMAIN m |-> heap[m[d]]]

\* dict(self.device_metrics): a new outer dict holding the same inner dicts
ExportedDeviceMetrics(dm) == dm

\* get_system_metrics
SystemMetricsView ==
    [metrics |-> system_metrics,
     uptime_seconds |-> now - start_time,
     total_devices |-> Cardinality(DOMAIN device_metrics)]

\* get_historical_data(hours)
HistoricalData(hours) ==
    [messages |-> SelectSince(message_history, now - hours * HourSeconds),
     errors |-> SelectSince(error_history, now - hours * HourSeconds)]

\* the value export_metrics returns in the current state
ExportResult ==
    [taken |-> TRUE,
     system_metrics |-> SystemMetricsView.metrics,
     uptime_seconds |-> SystemMetricsView.uptime_seconds,
     total_devices |-> SystemMetricsView.total_devices,
     device_metrics |-> ExportedDeviceMetrics(device_metrics),
     messages |-> HistoricalData(ExportHours).messages,
     errors |-> HistoricalData(ExportHours).errors,
     export_timestamp |-> now,
     n_sent |-> nSent, n_err |-> nErr]

\* export_metrics, the caller keeping the returned dict
export_metrics ==
    /\ snapshot' = ExportResult
    /\ frozen' = Deref(ExportResult.device_metrics)
    /\ heap' = Collect(heap, device_metrics, snapshot', threads)
    /\ UNCHANGED <<device_metrics, system_metrics, message_history,
                   error_history, start_time, last_update, now, nSent, nErr>>

\* a clear that leaves the deque as it is
ClearedNot(q) == q

\* deque.clear
Cleared(q) == <<>>

reset_metrics ==
    /\ device_metrics' = EmptyMap
    /\ heap' = Collect(heap, EmptyMap, snapshot, threads)
    /\ system_metrics' = InitialSystemMetrics
    /\ message_history' = Cleared(message_history)
    /\ error_history' = Cleared(error_history)
    /\ start_time' = now
    /\ nSent' = 0
    /\ nErr' = 0
    /\ UNCHANGED <<last_update, now, snapshot, frozen>>

MNext ==
    \/ Tick
    \/ \E d \in DeviceIds : record_message_sent(d)
    \/ \E d \in DeviceIds : record_message_error(d)
    \/ \E d \in DeviceIds, c \in BOOLEAN, s \in BOOLEAN :
          update_device_status(d, c, s)
    \/ \E d \in DeviceIds : get_device_metrics(d)
    \/ reset_metrics

(***************************************************************************)
(* The collector called from several threads.  The collector takes no      *)
(* lock, so a call is a sequence of steps between which another thread can *)
(* run: the defaultdict lookup (with the default factory, a Python         *)
(* function, called on a miss before the new dict is stored), and the read *)
(* and the write of every "+= 1".                                           *)
(***************************************************************************)
ThreadIds == 1 .. NumThreads

IdleThread ==
    [pc |-> "idle", op |-> "none", dev |-> "none", ref |-> NoRef, tmp |-> 0,
     old |-> <<FALSE, FALSE>>, new |-> <<FALSE, FALSE>>,
     arg |-> <<FALSE, FALSE>>]

\* a thread makes one call and returns
DoneThread == [IdleThread EXCEPT !.pc = "done"]

TInit == threads = [t \in ThreadIds |-> IdleThread]

AfterLookup(op) == IF op = "status" THEN "old" ELSE "read"

ThreadStep(dm2, h2, sm2, mh2, eh2, lu2, th2, ns2, ne2) ==
    /\ device_metrics' = dm2
    /\ heap' = Collect(h2, dm2, snapshot, th2)
    /\ system_metrics' = sm2
    /\ message_history' = mh2
    /\ error_history' = eh2
    /\ last_update' = lu2
    /\ threads' = th2
    /\ nSent' = ns2
    /\ nErr' = ne2
    /\ UNCHANGED <<start_time, now, snapshot, frozen, after, svars, ovars>>

\* a step that changes only the thread's own locals
LocalStep(t, f) ==
    ThreadStep(device_metrics, heap, system_metrics, message_history,
               error_history, last_update, [threads EXCEPT ![t] = f],
               nSent, nErr)

T_call(t, op, d, c, s) ==
    /\ threads[t].pc = "idle"
    /\ LocalStep(t, [IdleThread EXCEPT !.pc = "lookup", !.op = op, !.dev = d,
                                       !.arg = <<c, s>>])

\* self.device_metrics[device_id]: a hit, or a miss that calls the factory
T_lookup(t) ==
    LET th == threads[t] IN
    /\ th.pc = "lookup"
    /\ IF th.dev \in DOMAIN device_metrics
       THEN LocalStep(t, [th EXCEPT !.ref = device_metrics[th.dev],
                                    !.pc = AfterLookup(th.op)])
       ELSE LocalStep(t, [th EXCEPT
                             !.ref = NewRef(device_metrics, snapshot, threads),
                             !.pc = "store"])

\* defaultdict.__missing__ stores the dict the factory returned
T_store(t) ==
    LET th == threads[t]
        dm == [x \in DOMAIN device_metrics \cup {th.dev} |->
                 IF x = th.dev THEN th.ref ELSE device_metrics[x]]
    IN
    /\ th.pc = "store"
    /\ ThreadStep(dm, heap, system_metrics, message_history, error_history,
                  last_update,
                  [threads EXCEPT ![t] = [th EXCEPT !.pc = AfterLookup(th.op)]],
                  nSent, nErr)

CountField(op) == IF op = "sent" THEN "message_count" ELSE "error_count"
TotalField(op) == IF op = "sent" THEN "total_messages" ELSE "total_errors"

\* lines 40 and 60, the read of "+= 1"
T_read(t) ==
    LET th == threads[t] IN
    /\ th.pc = "read"
    /\ LocalStep(t, [th EXCEPT !.tmp = heap[th.ref][CountField(th.op)],
                               !.pc = "write"])

\* lines 40 and 60, the write of "+= 1"
T_write(t) ==
    LET th == threads[t] IN
    /\ th.pc = "write"
    /\ ThreadStep(device_metrics,
                  [heap EXCEPT ![th.ref][CountField(th.op)] = th.tmp + 1],
                  system_metrics, message_history, error_history, last_update,
                  [threads EXCEPT ![t] =
                     [th EXCEPT !.pc = IF th.op = "sent" THEN "time"
                                       ELSE "sys_read"]],
                  nSent, nErr)

\* line 41
T_time(t) ==
    LET th == threads[t]
        dm == Lookup(device_metrics, th.dev)
    IN
    /\ th.pc = "time"
    /\ ThreadStep(dm, [heap EXCEPT ![dm[th.dev]].last_message_time = now],
                  system_metrics, message_history, error_history, last_update,
                  [threads EXCEPT ![t] = [th EXCEPT !.pc = "sys_read"]],
                  nSent, nErr)

\* lines 43 and 62, the read of "+= 1"
T_sys_read(t) ==
    LET th == threads[t] IN
    /\ th.pc = "sys_read"
    /\ LocalStep(t, [th EXCEPT !.tmp = system_metrics[TotalField(th.op)],
                               !.pc = "sys_write"])

\* lines 43 and 62, the write of "+= 1"
T_sys_write(t) ==
    LET th == threads[t] IN
    /\ th.pc = "sys_write"
    /\ ThreadStep(device_metrics, heap,
                  [system_metrics EXCEPT ![TotalField(th.op)] = th.tmp + 1],
                  message_history, error_history, last_update,
                  [threads EXCEPT ![t] = [th EXCEPT !.pc = "history"]],
                  nSent, nErr)

\* lines 46-56 and 65-73: the history append, the rates, the return
T_history(t) ==
    LET th == threads[t]
        done == [threads EXCEPT ![t] = DoneThread]
        hist == DequeAppend(message_history, <<now, 1>>)
    IN
    /\ th.pc = "history"
    /\ IF th.op = "sent"
       THEN ThreadStep(device_metrics, heap,
                       UpdatedRate(system_metrics, hist), hist, error_history,
                       IF RateDue THEN now ELSE last_update,
                       done, nSent + 1, nErr)
       ELSE ThreadStep(device_metrics, heap, system_metrics, message_history,
                       DequeAppend(error_history, <<now, 1>>), last_update,
                       done, nSent, nErr + 1)

\* lines 79-80
T_old(t) ==
    LET th == threads[t] IN
    /\ th.pc = "old"
    /\ LocalStep(t, [th EXCEPT !.old = <<IsConnected(heap[th.ref]),
                                         IsRunning(heap[th.ref])>>,
                               !.pc = "set_conn"])

\* line 82
T_set_conn(t) ==
    LET th == threads[t] IN
    /\ th.pc = "set_conn"
    /\ ThreadStep(device_metrics,
                  [heap EXCEPT ![th.ref].connection_status = ConnStatus(th.arg[1])],
                  system_metrics, message_history, error_history, last_update,
                  [threads EXCEPT ![t] = [th EXCEPT !.pc = "set_sim"]],
                  nSent, nErr)

\* line 83
T_set_sim(t) ==
    LET th == threads[t] IN
    /\ th.pc = "set_sim"
    /\ ThreadStep(device_metrics,
                  [heap EXCEPT ![th.ref].simulation_status = SimStatus(th.arg[2])],
                  system_metrics, message_history, error_history, last_update,
                  [threads EXCEPT ![t] = [th EXCEPT !.pc = "new"]],
                  nSent, nErr)

\* where update_device_status goes on after the counter numbered k
StatusPc(th, k) ==
    IF k <= 1 /\ th.new[1] # th.old[1] THEN "conn_read"
    ELSE IF k <= 2 /\ th.new[2] # th.old[2] THEN "act_read"
    ELSE "idle"

StatusNext(th, k) ==
    IF StatusPc(th, k) = "idle" THEN DoneThread
    ELSE [th EXCEPT !.pc = StatusPc(th, k)]

\* lines 86-87
T_new(t) ==
    LET th == threads[t]
        seen == [th EXCEPT !.new = <<IsConnected(heap[th.ref]),
                                     IsRunning(heap[th.ref])>>]
    IN
    /\ th.pc = "new"
    /\ LocalStep(t, StatusNext(seen, 1))

StatusCounter(pc) ==
    IF pc \in {"conn_read", "conn_write"} THEN "connected_devices"
    ELSE "active_devices"

\* lines 91, 93, 97, 99: the read of "+= 1" / "-= 1"
T_counter_read(t) ==
    LET th == threads[t] IN
    /\ th.pc \in {"conn_read", "act_read"}
    /\ LocalStep(t, [th EXCEPT !.tmp = system_metrics[StatusCounter(th.pc)],
                               !.pc = IF th.pc = "conn_read" THEN "conn_write"
                                      ELSE "act_write"])

\* lines 91, 93, 97, 99: the write
T_counter_write(t) ==
    LET th == threads[t]
        k == IF th.pc = "conn_write" THEN 1 ELSE 2
        delta == IF th.new[k] THEN 1 ELSE -1
    IN
    /\ th.pc \in {"conn_write", "act_write"}
    /\ ThreadStep(device_metrics, heap,
                  [system_metrics EXCEPT ![StatusCounter(th.pc)] = th.tmp + delta],
                  message_history, error_history, last_update,
                  [threads EXCEPT ![t] = StatusNext(th, k + 1)],
                  nSent, nErr)

TNext ==
    \/ \E t \in ThreadIds, d \in DeviceIds : T_call(t, "sent", d, FALSE, FALSE)
    \/ \E t \in ThreadIds, d \in DeviceIds : T_call(t, "error", d, FALSE, FALSE)
    \/ \E t \in ThreadIds, d \in DeviceIds, c \in BOOLEAN, s \in BOOLEAN :
          T_call(t, "status", d, c, s)
    \/ \E t \in ThreadIds : T_lookup(t)
    \/ \E t \in ThreadIds : T_store(t)
    \/ \E t \in ThreadIds : T_read(t)
    \/ \E t \in ThreadIds : T_write(t)
    \/ \E t \in ThreadIds : T_time(t)
    \/ \E t \in ThreadIds : T_sys_read(t)
    \/ \E t \in ThreadIds : T_sys_write(t)
    \/ \E t \in ThreadIds : T_history(t)
    \/ \E t \in ThreadIds : T_old(t)
    \/ \E t \in ThreadIds : T_set_conn(t)
    \/ \E t \in ThreadIds : T_set_sim(t)
    \/ \E t \in ThreadIds : T_new(t)
    \/ \E t \in ThreadIds : T_counter_read(t)
    \/ \E t \in ThreadIds : T_counter_write(t)

(***************************************************************************)
(* VirtualDevice, DeviceSimulation and SimulationEngine on the asyncio     *)
(* event loop.  The loop runs one ready handle at a time, in the order in  *)
(* which the handles were scheduled; a task runs without interruption from *)
(* one await that suspends it to the next.  ready holds task ids, and -p   *)
(* for the done-callback that asyncio.gather attached for the task p.      *)
(***************************************************************************)
\* the counts the model follows a simulation to: a limit of MaxN can be
\* overshot by the rest of a burst
MaxCount == MaxN + BurstCount - 1

TaskIds == 1 .. MaxTasks
SimIds == 1 .. MaxSims

NoTask == 0
DoneTask == -1
NoSimId == 0

BuiltinTemplates == {"temperature_sensor", "motion_sensor"}
TemplateNames == {"temperature_sensor", "gps_tracker"}

\* the SimulationConfig values the environment registers simulations with;
\* max_messages 0 stands for None
Configs ==
    {[burst_mode |-> b, max_messages |-> m] : b \in BOOLEAN, m \in {0, MaxN}}

FreeTask ==
    [kind |-> "free", sim |-> NoSimId, dev |-> "none", pc |-> "none",
     must_cancel |-> FALSE, outcome |-> "none", i |-> 0, wait |-> NoTask,
     pending |-> 0, parent |-> NoTask, clean |-> TRUE, was_running |-> FALSE,
     tries |-> 0]

NoSim ==
    [device |-> "none", burst_mode |-> FALSE, max_messages |-> 0,
     is_running |-> FALSE, message_count |-> 0, start_time |-> NoTime,
     task |-> NoTask, last_event |-> "none"]

NoAttempt == [sim |-> NoSimId, result |-> "none"]

\* DeviceConfig.template_name when the caller gives none
DefaultTemplate == "temperature_sensor"

\* the state after construction, for devices configured with one of names
SStart(names) ==
    /\ azure \in BOOLEAN
    /\ dev \in [DeviceIds -> {[is_connected |-> FALSE, is_simulating |-> FALSE,
                               error_count |-> 0, template_name |-> n] :
                              n \in names}]
    /\ sims = [s \in SimIds |-> NoSim]
    /\ simulations = <<>>
    /\ engine_running = FALSE
    /\ tasks = [t \in TaskIds |-> FreeTask]
    /\ ready = <<>>
    /\ calls = 0
    /\ emitted = {}
    /\ attempt = NoAttempt
    /\ returned = {}
    /\ quiet = [s \in SimIds |-> FALSE]

SInit == SStart({DefaultTemplate})

SIdle ==
    /\ azure = FALSE
    /\ dev = [d \in DeviceIds |-> [is_connected |-> FALSE, is_simulating |-> FALSE,
                                   error_count |-> 0,
                                   template_name |-> DefaultTemplate]]
    /\ sims = [s \in SimIds |-> NoSim]
    /\ simulations = <<>>
    /\ engine_running = FALSE
    /\ tasks = [t \in TaskIds |-> FreeTask]
    /\ ready = <<>>
    /\ calls = 0
    /\ emitted = {}
    /\ attempt = NoAttempt
    /\ returned = {}
    /\ quiet = [s \in SimIds |-> FALSE]

\* the state a step works on; emitted, attempt and returned describe the
\* step itself and start empty
Cur ==
    [sims |-> sims, dev |-> dev, tasks |-> tasks, ready |-> ready,
     simulations |-> simulations, engine_running |-> engine_running,
     quiet |-> quiet, emitted |-> {}, attempt |-> NoAttempt, returned |-> {}]

Min(S) == CHOOSE x \in S : \A y \in S : x <= y

RECURSIVE SetToSeq(_)
SetToSeq(S) == IF S = {} THEN <<>> ELSE <<Min(S)>> \o SetToSeq(S \ {Min(S)})

InReady(st, t) == \E k \in 1 .. Len(st.ready) : st.ready[k] = t

FreeIds(st) == {t \in TaskIds : st.tasks[t].kind = "free"}
NewTask(st) == Min(FreeIds(st))

\* asyncio.create_task / ensure_future: the new task's first step is scheduled
Spawn(st, rec) ==
    [st EXCEPT !.tasks[NewTask(st)] = rec, !.ready = Append(@, NewTask(st))]

LifeEvents == {"SIMULATION_STARTED", "SIMULATION_STOPPED"}

\* emit_event; last_event keeps the last of a simulation's own
\* SIMULATION_STARTED and SIMULATION_STOPPED events
Emit(st, type, source) ==
    IF type \in LifeEvents /\ source # NoSimId
    THEN [st EXCEPT !.emitted = @ \cup {<<type, source>>},
                    !.sims[source].last_event = type]
    ELSE [st EXCEPT !.emitted = @ \cup {<<type, source>>}]

\* the registry (a dict, in insertion order)
Registered(regs) == {regs[k].id : k \in 1 .. Len(regs)}
SimOf(regs, d) == (CHOOSE k \in 1 .. Len(regs) : regs[k].id = d)
SimAt(regs, d) == regs[SimOf(regs, d)].sim
RegisteredSims(regs) == {regs[k].sim : k \in 1 .. Len(regs)}

\* a task ends: the tasks awaiting it are woken, the done-callback of the
\* gather it belongs to is scheduled, a simulation that holds it as
\* _simulation_task now holds a finished task
Finish(st, t) ==
    LET waiters == {w \in TaskIds : /\ st.tasks[w].kind # "free"
                                    /\ st.tasks[w].pc = "await"
                                    /\ st.tasks[w].wait = t}
        p == st.tasks[t].parent
        cb == IF p = NoTask THEN <<>> ELSE <<0 - p>>
    IN [st EXCEPT
          !.tasks = [x \in TaskIds |-> IF x = t THEN FreeTask ELSE st.tasks[x]],
          !.ready = @ \o SetToSeq(waiters) \o cb,
          !.sims = [s \in SimIds |->
                      IF st.sims[s].task = t
                      THEN [st.sims[s] EXCEPT !.task = DoneTask]
                      ELSE st.sims[s]]]

\* a return that announces a stop
ReturnEmitting(st, t, what) ==
    Finish(Emit([st EXCEPT !.returned = @ \cup {what}],
                "SIMULATION_STOPPED", NoSimId), t)

\* the call that task t ran returns
Return(st, t, what) ==
    Finish([st EXCEPT !.returned = @ \cup {what}], t)

\* a cancel that only marks the task and schedules nothing
CancelUnscheduled(st, t) == [st EXCEPT !.tasks[t].must_cancel = TRUE]

\* Task.cancel on a task that is not done: CancelledError is thrown into it
\* at its next step, which is scheduled now if the task was waiting
Cancel(st, t) ==
    [st EXCEPT !.tasks[t].must_cancel = TRUE,
               !.ready = IF InReady(st, t) THEN @ ELSE Append(@, t)]

(***************************************************************************)
(* VirtualDevice.send_message and DeviceSimulation                         *)
(***************************************************************************)
DeviceOf(st, s) == st.sims[s].device

\* MessageGenerator.generate_message returns None for a template name that
\* is not one of the simulation's own generator
HasMessage(st, s) == st.dev[DeviceOf(st, s)].template_name \in BuiltinTemplates

\* send_message up to its first await: without the SDK it reports success at
\* once, a device that is not connected returns False at once, otherwise it
\* awaits the client's send
SendPath(st, s) ==
    IF ~azure THEN "ok"
    ELSE IF ~st.dev[DeviceOf(st, s)].is_connected THEN "refused"
    ELSE "await"

\* a failed send counted as a message: an ordinary bug of the tally
CountAfterSendAlways(count, success) == count + 1

\* _send_single_message lines 122-123
CountAfterSend(count, success) == IF success THEN count + 1 ELSE count

\* the outcome of one send attempt of simulation s:
\*   "ok"       send_message returned True
\*   "fail"     the client raised, send_message returned False (lines 258-269)
\*   "refused"  the device was not connected, send_message returned False
\*              (lines 223-225)
Tally(st, s, result) ==
    LET d == DeviceOf(st, s)
        counted == [st EXCEPT
                      !.sims[s].message_count = CountAfterSend(@, result = "ok"),
                      !.attempt = [sim |-> s,
                                   result |-> IF result = "ok" THEN "ok" ELSE "fail"]]
    IN CASE result = "ok" -> Emit(counted, "MESSAGE_SENT", s)
         [] result = "fail" ->
              Emit([counted EXCEPT !.dev[d].error_count = @ + 1],
                   "MESSAGE_FAILED", s)
         [] OTHER -> counted

\* where the loop suspends after the burst member numbered i
AfterMember(st, t, s, i) ==
    IF st.sims[s].burst_mode /\ i < BurstCount - 1
    THEN [st EXCEPT !.tasks[t].pc = "burst_sleep", !.tasks[t].i = i,
                    !.tasks[t].outcome = "none"]
    ELSE [st EXCEPT !.tasks[t].pc = "sleep", !.tasks[t].i = 0,
                    !.tasks[t].outcome = "none"]

\* _send_single_message, and one round of the for loop of _send_burst_messages
\* tries counts the calls of send_message in the iteration under way
SendMember(st, t, s, i) ==
    LET tried == [st EXCEPT !.tasks[t].tries = @ + 1] IN
    IF ~HasMessage(st, s) THEN AfterMember(st, t, s, i)
    ELSE IF SendPath(st, s) = "await"
         THEN [tried EXCEPT !.tasks[t].pc = "sending", !.tasks[t].i = i]
         ELSE AfterMember(Tally(tried, s, SendPath(st, s)), t, s, i)

\* the finally clause of _simulation_loop, and the end of the task
LoopExit(st, t, s) ==
    Finish([st EXCEPT !.sims[s].is_running = FALSE,
                      !.dev[DeviceOf(st, s)].is_simulating = FALSE], t)

LimitReached(sim) ==
    sim.max_messages # 0 /\ sim.message_count >= sim.max_messages

\* the head of the while loop
LoopTop(st, t, s) ==
    IF ~st.sims[s].is_running \/ LimitReached(st.sims[s])
    THEN LoopExit(st, t, s)
    ELSE SendMember([st EXCEPT !.tasks[t].tries = 0], t, s, 0)

\* one step of the task running _simulation_loop
LoopStep(st, t) ==
    LET tk == st.tasks[t]
        s == tk.sim
    IN CASE tk.must_cancel /\ tk.pc = "new" -> Finish(st, t)
         [] tk.must_cancel /\ tk.pc # "new" -> LoopExit(st, t, s)
         [] ~tk.must_cancel /\ tk.pc \in {"new", "sleep"} -> LoopTop(st, t, s)
         [] ~tk.must_cancel /\ tk.pc = "burst_sleep" ->
              SendMember(st, t, s, tk.i + 1)
         [] OTHER -> AfterMember(Tally(st, s, tk.outcome), t, s, tk.i)

LoopTask(s) ==
    [FreeTask EXCEPT !.kind = "loop", !.sim = s, !.pc = "new"]

\* a start of s is under way: the calls that are waiting for s to stop no
\* longer describe a stop that nothing interleaved with
NoteStart(st, s) ==
    [st EXCEPT
       !.quiet[s] = FALSE,
       !.tasks = [x \in TaskIds |->
                    IF \/ st.tasks[x].kind = "stop_all"
                       \/ st.tasks[x].kind \in {"stop", "stop_device"}
                          /\ st.tasks[x].sim = s
                    THEN [st.tasks[x] EXCEPT !.clean = FALSE]
                    ELSE st.tasks[x]]]

\* start without its guard
StartGuardNone(sim) == TRUE

\* the guard of start, line 45
StartGuard(sim) == ~sim.is_running

\* DeviceSimulation.start; datetime.now() is read off the count of the
\* application's calls, the clock of the engine
StartBody(st, s) ==
    LET noted == NoteStart(st, s) IN
    IF ~StartGuard(noted.sims[s]) THEN noted
    ELSE Emit(Spawn([noted EXCEPT
                       !.sims[s].is_running = TRUE,
                       !.sims[s].start_time = calls,
                       !.sims[s].task = NewTask(noted),
                       !.dev[DeviceOf(noted, s)].is_simulating = TRUE],
                    LoopTask(s)),
              "SIMULATION_STARTED", s)

\* stop without its guard
StopGuardNone(sim) == TRUE

\* the guard of stop, line 63
StopGuard(sim) == sim.is_running

StopReturn(st, t, s) ==
    LET tk == st.tasks[t] IN
    [(Return(st, t, <<"stop", s, tk.was_running, tk.clean>>))
       EXCEPT !.quiet[s] = tk.clean]

\* DeviceSimulation.stop, run by task t up to its await
StopBody(st, t, s) ==
    LET sim == st.sims[s]
        begun == [st EXCEPT !.tasks[t].sim = s,
                            !.tasks[t].was_running = sim.is_running,
                            !.tasks[t].clean = TRUE]
        lt == sim.task
        flagged == [begun EXCEPT
                      !.sims[s].is_running = FALSE,
                      !.dev[DeviceOf(st, s)].is_simulating = FALSE]
    IN IF ~StopGuard(sim) THEN StopReturn(begun, t, s)
       ELSE IF lt \in TaskIds
            THEN [(Cancel(flagged, lt)) EXCEPT !.tasks[t].pc = "await",
                                              !.tasks[t].wait = lt]
            ELSE StopReturn(Emit(flagged, "SIMULATION_STOPPED", s), t, s)

\* stop resumes after the cancelled task has ended
StopResume(st, t) ==
    StopReturn(Emit(st, "SIMULATION_STOPPED", st.tasks[t].sim), t, st.tasks[t].sim)

(***************************************************************************)
(* SimulationEngine                                                        *)
(***************************************************************************)
\* a simulation object that neither the registry nor any task refers to
Collectable(st, s) ==
    /\ s \notin RegisteredSims(st.simulations)
    /\ \A t \in TaskIds : st.tasks[t].kind = "free" \/ st.tasks[t].sim # s

\* it is reclaimed once a step has left it unreferenced
Reclaimed(st, s) == Collectable(Cur, s) /\ Collectable(st, s)

\* the step ends in state st0 (bound once, so that it is evaluated once)
Commit(st0) ==
    \E st \in {st0} :
        /\ \A s \in SimIds : st.sims[s].message_count <= MaxCount
        /\ \A d \in DeviceIds : st.dev[d].error_count <= MaxErrors
        /\ sims' = [s \in SimIds |-> IF Reclaimed(st, s) THEN NoSim ELSE st.sims[s]]
        /\ quiet' = [s \in SimIds |-> IF Reclaimed(st, s) THEN FALSE ELSE st.quiet[s]]
        /\ dev' = st.dev
        /\ tasks' = st.tasks
        /\ ready' = st.ready
        /\ simulations' = st.simulations
        /\ engine_running' = st.engine_running
        /\ emitted' = st.emitted
        /\ attempt' = st.attempt
        /\ returned' = st.returned
        /\ UNCHANGED <<azure, mvars, tvars, ovars>>

Room(n) == Cardinality(FreeIds(Cur)) >= n

CallTask(kind, d) ==
    [FreeTask EXCEPT !.kind = kind, !.dev = d, !.pc = "new"]

\* the application calls a coroutine of the engine
CallAsync(kind, d) ==
    /\ calls < MaxCalls
    /\ Room(1)
    /\ calls' = calls + 1
    /\ Commit(Spawn(Cur, CallTask(kind, d)))

start_device(d) == CallAsync("start_device", d)
stop_device(d) == CallAsync("stop_device", d)
start_all == CallAsync("start_all", "none")
stop_all == CallAsync("stop_all", "none")

UnusedSims == {s \in SimIds : sims[s].device = "none"}

\* the entry added even when the id is registered
StoredAppend(regs, d, s) == Append(regs, [id |-> d, sim |-> s])

\* self.simulations[device_id] = simulation
Stored(regs, d, s) ==
    IF d \in Registered(regs)
    THEN [regs EXCEPT ![SimOf(regs, d)].sim = s]
    ELSE Append(regs, [id |-> d, sim |-> s])

add_device_simulation(d, config) ==
    /\ calls < MaxCalls
    /\ UnusedSims # {}
    /\ calls' = calls + 1
    /\ LET s == Min(UnusedSims)
           made == [NoSim EXCEPT !.device = d,
                                 !.burst_mode = config.burst_mode,
                                 !.max_messages = config.max_messages]
       IN Commit([Cur EXCEPT !.sims[s] = made,
                             !.simulations = Stored(@, d, s),
                             !.returned = {<<"add", s, config.burst_mode,
                                             config.max_messages # 0>>}])

\* del self.simulations[device_id]
Deleted(regs, d) == SelectSeq(regs, LAMBDA e : e.id # d)

StopTask(s) == [FreeTask EXCEPT !.kind = "stop", !.sim = s, !.pc = "new"]

remove_device_simulation(d) ==
    /\ calls < MaxCalls
    /\ Room(1)
    /\ calls' = calls + 1
    /\ IF d \in Registered(simulations)
       THEN LET s == SimAt(simulations, d)
                st == IF sims[s].is_running THEN Spawn(Cur, StopTask(s)) ELSE Cur
            IN Commit([st EXCEPT !.simulations = Deleted(@, d),
                                 !.returned = {<<"remove", s,
                                                 sims[s].is_running, TRUE>>}])
       ELSE Commit([Cur EXCEPT !.returned = {<<"remove", NoSimId, FALSE, TRUE>>}])

\* VirtualDevice.connect; without the SDK it returns False
connect(d) ==
    /\ calls < MaxCalls
    /\ azure
    /\ ~dev[d].is_connected
    /\ calls' = calls + 1
    /\ Commit([Cur EXCEPT !.dev[d].is_connected = TRUE])

\* VirtualDevice.disconnect
disconnect(d) ==
    /\ calls < MaxCalls
    /\ dev[d].is_connected \/ dev[d].is_simulating
    /\ calls' = calls + 1
    /\ Commit([Cur EXCEPT !.dev[d].is_connected = FALSE,
                          !.dev[d].is_simulating = FALSE])

Waiting(t) == tasks[t].kind = "loop" /\ ~InReady(Cur, t)

\* the timer of asyncio.sleep expires
TimerFires(t) ==
    /\ Waiting(t)
    /\ tasks[t].pc \in {"sleep", "burst_sleep"}
    /\ Commit([Cur EXCEPT !.ready = Append(@, t)])
    /\ UNCHANGED calls

\* the client's send_message completes, or raises
SendCompletes(t, outcome) ==
    /\ Waiting(t)
    /\ tasks[t].pc = "sending"
    /\ Commit([Cur EXCEPT !.tasks[t].outcome = outcome,
                          !.ready = Append(@, t)])
    /\ UNCHANGED calls

(***************************************************************************)
(* The event loop runs the first ready handle.                             *)
(***************************************************************************)
HeadIs(kind) ==
    /\ ready # <<>>
    /\ Head(ready) \in TaskIds
    /\ tasks[Head(ready)].kind = kind

Popped == [Cur EXCEPT !.ready = Tail(ready)]

RunLoop ==
    /\ HeadIs("loop")
    /\ Commit(LoopStep(Popped, Head(ready)))
    /\ UNCHANGED calls

\* a start that gather wrapped in a task
RunStart ==
    /\ HeadIs("start")
    /\ Room(1) \/ sims[tasks[Head(ready)].sim].is_running
    /\ LET t == Head(ready)
           s == tasks[t].sim
       IN Commit(Return(StartBody(Popped, s), t, <<"start", s, sims[s].is_running, TRUE>>))
    /\ UNCHANGED calls

\* a stop that gather or remove_device_simulation wrapped in a task
RunStop ==
    /\ HeadIs("stop")
    /\ LET t == Head(ready) IN
       IF tasks[t].pc = "new"
       THEN Commit(StopBody(Popped, t, tasks[t].sim))
       ELSE Commit(StopResume(Popped, t))
    /\ UNCHANGED calls

RunStartDevice ==
    /\ HeadIs("start_device")
    /\ Room(1)
    /\ LET t == Head(ready)
           d == tasks[t].dev
       IN IF d \in Registered(simulations)
          THEN Commit(Return(StartBody(Popped, SimAt(simulations, d)), t,
                             <<"start_device", SimAt(simulations, d),
                               sims[SimAt(simulations, d)].is_running, TRUE>>))
          ELSE Commit(Return(Popped, t, <<"start_device", NoSimId, FALSE, TRUE>>))
    /\ UNCHANGED calls

RunStopDevice ==
    /\ HeadIs("stop_device")
    /\ LET t == Head(ready)
           d == tasks[t].dev
       IN IF tasks[t].pc = "new"
          THEN IF d \in Registered(simulations)
               THEN Commit(StopBody(Popped, t, SimAt(simulations, d)))
               ELSE Commit(Return(Popped, t, <<"stop_device", NoSimId, FALSE, TRUE>>))
          ELSE Commit(StopResume(Popped, t))
    /\ UNCHANGED calls

RECURSIVE SpawnAll(_, _, _, _)
SpawnAll(st, kind, targets, parent) ==
    IF targets = <<>> THEN st
    ELSE SpawnAll(Spawn(st, [FreeTask EXCEPT !.kind = kind, !.pc = "new",
                                             !.sim = Head(targets),
                                             !.parent = parent]),
                  kind, Tail(targets), parent)

SimsInOrder(regs) == [k \in 1 .. Len(regs) |-> regs[k].sim]

\* start_all and stop_all: the fan-out, the await of gather, the event
FanOut(st, t, kind, targets, event) ==
    IF targets = <<>>
    THEN Return(Emit(st, event, NoSimId), t,
                <<st.tasks[t].kind, NoSimId, FALSE, st.tasks[t].clean>>)
    ELSE [(SpawnAll(st, kind, targets, t)) EXCEPT
             !.tasks[t].pc = "gather",
             !.tasks[t].pending = Len(targets)]

FanIn(st, t, event) ==
    Return(Emit(st, event, NoSimId), t,
           <<st.tasks[t].kind, NoSimId, FALSE, st.tasks[t].clean>>)

RunStartAll ==
    /\ HeadIs("start_all")
    /\ Room(Len(simulations))
    /\ LET t == Head(ready) IN
       IF tasks[t].pc = "new"
       THEN Commit(FanOut([Popped EXCEPT !.engine_running = TRUE], t, "start",
                          SimsInOrder(simulations), "SIMULATION_STARTED"))
       ELSE Commit(FanIn(Popped, t, "SIMULATION_STARTED"))
    /\ UNCHANGED calls

\* stop_all gathers the simulations that are running, lines 199-201
StopTargets(regs) ==
    SelectSeq(SimsInOrder(regs), LAMBDA s : sims[s].is_running)

RunStopAll ==
    /\ HeadIs("stop_all")
    /\ Room(Len(simulations))
    /\ LET t == Head(ready) IN
       IF tasks[t].pc = "new"
       THEN Commit(FanOut([Popped EXCEPT !.engine_running = FALSE,
                                         !.tasks[t].clean = TRUE],
                          t, "stop", StopTargets(simulations),
                          "SIMULATION_STOPPED"))
       ELSE Commit(FanIn(Popped, t, "SIMULATION_STOPPED"))
    /\ UNCHANGED calls

\* the done-callback of gather for one child of task p; the last one
\* completes the gather and wakes p
RunGatherCallback ==
    /\ ready # <<>>
    /\ Head(ready) < 0
    /\ LET p == 0 - Head(ready)
           left == tasks[p].pending - 1
       IN Commit([Popped EXCEPT
                    !.tasks[p].pending = left,
                    !.ready = IF left = 0 THEN Append(@, p) ELSE @])
    /\ UNCHANGED calls

SNext ==
    \/ \E d \in DeviceIds, c \in Configs : add_device_simulation(d, c)
    \/ \E d \in DeviceIds : remove_device_simulation(d)
    \/ \E d \in DeviceIds : start_device(d)
    \/ \E d \in DeviceIds : stop_device(d)
    \/ start_all
    \/ stop_all
    \/ \E d \in DeviceIds : connect(d)
    \/ \E d \in DeviceIds : disconnect(d)
    \/ \E t \in TaskIds : TimerFires(t)
    \/ \E t \in TaskIds, o \in {"ok", "fail"} : SendCompletes(t, o)
    \/ RunLoop
    \/ RunStart
    \/ RunStop
    \/ RunStartDevice
    \/ RunStopDevice
    \/ RunStartAll
    \/ RunStopAll
    \/ RunGatherCallback

(***************************************************************************)
(* EventBus (src/src/core/events.py), for one event type.  bus.handlers is *)
(* the list _handlers[event_type]; an emit works on its copy, bus.todo.    *)
(* bus.at_emit, bus.log and bus.failed record, for the emit under way or   *)
(* just over, the list at the time of the emit, the handlers invoked so    *)
(* far and those that raised.                                              *)
(***************************************************************************)
Handlers == {"h1", "h2", "h3"}

\* bus.last records the latest subscribe or unsubscribe call: the handler
\* given and the list as the call found it
NoCall == [op |-> "none", h |-> "none", before |-> <<>>]

BIdle ==
    bus = [handlers |-> <<>>, pc |-> "idle", todo |-> <<>>, at_emit |-> <<>>,
           log |-> <<>>, failed |-> {}, changed |-> FALSE, propagated |-> FALSE,
           last |-> NoCall]

\* a subscribe that appends whatever the list holds
SubscribedAgain(list, h) == Append(list, h)

\* EventBus.subscribe, lines 80-81
Subscribed(list, h) == IF h \in Range(list) THEN list ELSE Append(list, h)

\* list.remove: the first occurrence goes
Removed(list, h) ==
    LET i == CHOOSE k \in 1 .. Len(list) :
                 list[k] = h /\ \A j \in 1 .. k - 1 : list[j] # h
    IN SubSeq(list, 1, i - 1) \o SubSeq(list, i + 1, Len(list))

\* EventBus.unsubscribe, lines 87-89: remove is called only on a list that
\* holds the handler; a list that was never made behaves as the empty one
Unsubscribed(list, h) == IF h \in Range(list) THEN Removed(list, h) ELSE list

\* subscribe and unsubscribe, from a handler that an emit is running or
\* from anywhere else
subscribe(h) ==
    /\ bus' = [bus EXCEPT !.handlers = Subscribed(@, h),
                          !.last = [op |-> "subscribe", h |-> h,
                                    before |-> bus.handlers]]
    /\ UNCHANGED <<mvars, tvars, svars, gen, tpl>>

unsubscribe(h) ==
    /\ bus' = [bus EXCEPT !.handlers = Unsubscribed(@, h),
                          !.last = [op |-> "unsubscribe", h |-> h,
                                    before |-> bus.handlers]]
    /\ UNCHANGED <<mvars, tvars, svars, gen, tpl>>

\* a component changes its state and calls emit_event: emit copies the list
emit ==
    /\ bus.pc # "emitting"
    /\ bus' = [bus EXCEPT !.pc = "emitting", !.changed = TRUE,
                          !.todo = bus.handlers, !.at_emit = bus.handlers,
                          !.log = <<>>, !.failed = {}, !.propagated = FALSE]
    /\ UNCHANGED <<mvars, tvars, svars, gen, tpl>>

\* an except clause that catches nothing
CaughtNothing(raises) == FALSE

\* except Exception, line 104: what a handler raises is an Exception
Caught(raises) == raises

\* one round of the for loop of emit: the handler returns or raises
invoke(raises) ==
    /\ bus.pc = "emitting"
    /\ bus.todo # <<>>
    /\ LET h == Head(bus.todo)
           called == [bus EXCEPT !.log = Append(@, h),
                                 !.failed = IF raises THEN @ \cup {h} ELSE @]
       IN bus' = IF raises /\ ~Caught(raises)
                 THEN [called EXCEPT !.pc = "raised", !.todo = <<>>,
                                     !.propagated = TRUE]
                 ELSE [called EXCEPT !.todo = Tail(@)]
    /\ UNCHANGED <<mvars, tvars, svars, gen, tpl>>

\* the loop is over, emit returns to the component
emit_returns ==
    /\ bus.pc = "emitting"
    /\ bus.todo = <<>>
    /\ bus' = [bus EXCEPT !.pc = "returned"]
    /\ UNCHANGED <<mvars, tvars, svars, gen, tpl>>

BNext ==
    \/ \E h \in Handlers : subscribe(h)
    \/ \E h \in Handlers : unsubscribe(h)
    \/ emit
    \/ \E raises \in BOOLEAN : invoke(raises)
    \/ emit_returns

(***************************************************************************)
(* MessageTemplate with one numeric field of pattern LINEAR                *)
(* (src/src/azure_integration/message_generator.py).  Numbers are in       *)
(* thousandths; an Optional[float] is a record whose set field tells       *)
(* whether it is not None.  gen.counter is _step_counter, gen.value the    *)
(* value last generated for the field.                                     *)
(***************************************************************************)
Unset == [set |-> FALSE, v |-> 0]
Val(n) == [set |-> TRUE, v |-> n]

MinValues == {Unset, Val(-1000), Val(1500)}
MaxValues == {Unset, Val(0), Val(12), Val(3000)}
StepSizes == {0, 4, 500}
DataTypes == {"int", "float"}

FieldConfigs ==
    {[data_type |-> t, min_value |-> lo, max_value |-> hi, step_size |-> st] :
        t \in DataTypes, lo \in MinValues, hi \in MaxValues, st \in StepSizes}

NoValue == -1000000

GIdle ==
    gen = [field |-> [data_type |-> "float", min_value |-> Unset,
                      max_value |-> Unset, step_size |-> DefaultStepSize],
           counter |-> 0, value |-> NoValue, pc |-> "idle"]

GStart ==
    \E f \in FieldConfigs :
        gen = [field |-> f, counter |-> 0, value |-> NoValue, pc |-> "idle"]

\* the truth value Python gives an Optional[float]
Truthy(x) == x.set /\ x.v # 0

\* x or d
OrElse(x, d) == IF Truthy(x) THEN x.v ELSE d

\* int(value): towards zero
IntOf(v) ==
    IF v >= 0 THEN (v \div 1000) * 1000 ELSE 0 - (((0 - v) \div 1000) * 1000)

\* round(value, 2); a value half-way between two hundredths, which the
\* fields above never produce, goes to the even one
Round2(v) ==
    LET q == v \div 10
        r == v % 10
    IN IF r < 5 THEN q * 10
       ELSE IF r > 5 THEN (q + 1) * 10
       ELSE IF q % 2 = 0 THEN q * 10 ELSE (q + 1) * 10

\* lines 175-178
Converted(f, v) == IF f.data_type = "int" THEN IntOf(v) ELSE Round2(v)

\* line 151
StartValue(f) == OrElse(f.min_value, 0)

\* line 152
StepOf(f) == IF f.step_size # 0 THEN f.step_size ELSE DefaultStepSize

\* the test of line 156
Wraps(f, value) == Truthy(f.max_value) /\ value > f.max_value.v

\* _generate_numeric_value for a LINEAR field with _step_counter = c: the
\* value returned and the counter left
LinearValue(f, c) ==
    LET value == StartValue(f) + StepOf(f) * c
    IN IF Wraps(f, value)
       THEN [value |-> Converted(f, OrElse(f.min_value, 0)), counter |-> 0]
       ELSE [value |-> Converted(f, value), counter |-> c]

\* generate_message up to the end of its for loop (line 70)
generate_field_value ==
    /\ gen.pc = "idle"
    /\ gen' = [gen EXCEPT !.value = LinearValue(gen.field, gen.counter).value,
                          !.counter = LinearValue(gen.field, gen.counter).counter,
                          !.pc = "generated"]
    /\ UNCHANGED <<mvars, tvars, svars, bus, tpl>>

\* generate_message from line 73 on
generate_message_returns ==
    /\ gen.pc = "generated"
    /\ gen.counter < MaxStep
    /\ gen' = [gen EXCEPT !.counter = @ + 1, !.pc = "idle"]
    /\ UNCHANGED <<mvars, tvars, svars, bus, tpl>>

GNext ==
    \/ generate_field_value
    \/ generate_message_returns

(***************************************************************************)
(* The MessageTemplates of two DeviceSimulations.  Each DeviceSimulation   *)
(* makes its own MessageGenerator (simulation_engine.py line 39), which    *)
(* makes its own MessageTemplate objects (message_generator.py lines       *)
(* 201-234); the two templates here have the same name and the same        *)
(* fields.  tpl.inst[i] is one MessageTemplate: counter is _step_counter,  *)
(* pc the position of a generate_message call in the list of fields (0     *)
(* when no call runs), message the dict being built or last returned;      *)
(* base, at, calls and done record the counter at the start of the call,   *)
(* the counter each field was evaluated at, the calls that returned and    *)
(* whether one did.  tpl.actor is the simulation that took the last step.  *)
(***************************************************************************)
Owners == {1, 2}
MaxFields == 2
MaxGenerated == 3

FieldNames == {"f1", "f2", "timestamp"}

\* a data type that _generate_field_value does not know
UnknownField(n) ==
    [name |-> n, data_type |-> "double", min_value |-> Unset,
     max_value |-> Unset, step_size |-> DefaultStepSize]

\* a field of data type timestamp
StampField(n) ==
    [name |-> n, data_type |-> "timestamp", min_value |-> Unset,
     max_value |-> Unset, step_size |-> DefaultStepSize]

\* LINEAR fields: one rising without end, one that wraps past 2.0
RisingField(n) ==
    [name |-> n, data_type |-> "int", min_value |-> Unset,
     max_value |-> Unset, step_size |-> 500]
WrappingField(n) ==
    [name |-> n, data_type |-> "float", min_value |-> Val(1500),
     max_value |-> Val(2000), step_size |-> 500]

TemplateFields ==
    UNION {{UnknownField(n), StampField(n), RisingField(n), WrappingField(n)} :
              n \in FieldNames}

\* the field lists add_field can build, names distinct
TemplateLists ==
    {fs \in UNION {[1 .. n -> TemplateFields] : n \in 1 .. MaxFields} :
        \A j, k \in 1 .. Len(fs) : fs[j].name = fs[k].name => j = k}

EmptyMessage == [n \in {} |-> Unset]

NewTemplate ==
    [counter |-> 0, pc |-> 0, message |-> EmptyMessage, base |-> 0,
     at |-> <<>>, calls |-> 0, done |-> FALSE]

PIdle ==
    tpl = [fields |-> <<>>, actor |-> Min(Owners),
           inst |-> [i \in Owners |-> NewTemplate]]

PStart ==
    \E fs \in TemplateLists :
        tpl = [fields |-> fs, actor |-> Min(Owners),
               inst |-> [i \in Owners |-> NewTemplate]]

\* one template object that every simulation uses
SharedTemplate(o) == Min(Owners)

\* the template simulation o generates with: the one its own
\* MessageGenerator made
OwnTemplate(o) == o

\* message[key] = value
Assigned(message, key, value) ==
    [n \in DOMAIN message \cup {key} |->
        IF n = key THEN value ELSE message[n]]

\* datetime.now(timezone.utc).isoformat()
IsoNow == Val(now)

\* _generate_field_value with _step_counter = c: the value returned (None
\* is Unset) and the counter left
FieldValue(f, c) ==
    IF f.data_type = "timestamp" THEN [value |-> IsoNow, counter |-> c]
    ELSE IF f.data_type \in {"int", "float"}
    THEN [value |-> Val(LinearValue(f, c).value),
          counter |-> LinearValue(f, c).counter]
    ELSE [value |-> Unset, counter |-> c]

\* lines 73-74
Stamped(message) ==
    IF "timestamp" \notin DOMAIN message
    THEN Assigned(message, "timestamp", IsoNow)
    ELSE message

\* generate_message, line 67
begin_message(o) ==
    LET i == OwnTemplate(o)
        t == tpl.inst[i]
    IN /\ t.pc = 0
       /\ t.calls < MaxGenerated
       /\ tpl' = [tpl EXCEPT !.actor = o,
                             !.inst[i] = [t EXCEPT !.pc = 1,
                                                   !.message = EmptyMessage,
                                                   !.base = t.counter,
                                                   !.at = <<>>,
                                                   !.done = FALSE]]
       /\ UNCHANGED <<mvars, tvars, svars, bus, gen>>

\* one round of the for loop, lines 69-70
field_value(o) ==
    LET i == OwnTemplate(o)
        t == tpl.inst[i]
    IN /\ t.pc \in 1 .. Len(tpl.fields)
       /\ LET f == tpl.fields[t.pc]
              r == FieldValue(f, t.counter)
          IN tpl' = [tpl EXCEPT
                       !.actor = o,
                       !.inst[i] = [t EXCEPT
                                      !.message = Assigned(@, f.name, r.value),
                                      !.at = Append(@, t.counter),
                                      !.counter = r.counter,
                                      !.pc = @ + 1]]
       /\ UNCHANGED <<mvars, tvars, svars, bus, gen>>

\* lines 73-77
message_returns(o) ==
    LET i == OwnTemplate(o)
        t == tpl.inst[i]
    IN /\ t.pc = Len(tpl.fields) + 1
       /\ tpl' = [tpl EXCEPT !.actor = o,
                             !.inst[i] = [t EXCEPT !.message = Stamped(@),
                                                   !.counter = @ + 1,
                                                   !.pc = 0,
                                                   !.calls = @ + 1,
                                                   !.done = TRUE]]
       /\ UNCHANGED <<mvars, tvars, svars, bus, gen>>

PNext ==
    \/ \E o \in Owners : begin_message(o)
    \/ \E o \in Owners : field_value(o)
    \/ \E o \in Owners : message_returns(o)

vars == <<mvars, tvars, svars, ovars>>

\* nothing uses the event bus or a message template
OIdle == BIdle /\ GIdle /\ PIdle

\* the collector used from one thread, no snapshot kept
InitMetrics == MInit /\ TIdle /\ SIdle /\ OIdle
NextMetrics == MNext /\ UNCHANGED <<after, tvars, svars, ovars>>
SpecMetrics == InitMetrics /\ [][NextMetrics]_vars

\* the collector with a caller that keeps the exported snapshot; after
\* counts the calls made since the last export
CallAllowed == snapshot.taken => after < MaxAfter

ENext ==
    \/ /\ CallAllowed
       /\ MNext
       /\ after' = IF snapshot.taken THEN after + 1 ELSE after
    \/ export_metrics /\ after' = 0

InitExport == MInit /\ TIdle /\ SIdle /\ OIdle
NextExport == ENext /\ UNCHANGED <<tvars, svars, ovars>>
SpecExport == InitExport /\ [][NextExport]_vars

\* the collector shared by NumThreads threads
InitThreads == MInit /\ TInit /\ SIdle /\ OIdle
SpecThreads == InitThreads /\ [][TNext]_vars

\* the engine and its simulations on the event loop
Init == MInit /\ TIdle /\ SInit /\ OIdle
Spec == Init /\ [][SNext]_vars

\* the event bus, its handlers subscribing and unsubscribing as they like
InitBus == MInit /\ TIdle /\ SIdle /\ BIdle /\ GIdle /\ PIdle
SpecBus == InitBus /\ [][BNext]_vars

\* two simulations generating messages from their templates, in any order
InitTemplates == MInit /\ TIdle /\ SIdle /\ BIdle /\ GIdle /\ PStart
SpecTemplates == InitTemplates /\ [][PNext]_vars

\* a message template with a linear field, asked for message after message
InitGen == MInit /\ TIdle /\ SIdle /\ BIdle /\ GStart /\ PIdle
SpecGen == InitGen /\ [][GNext]_vars

(***************************************************************************)
(* Simulations with a message limit, left to run: nothing calls stop, the  *)
(* client's send always completes, the event loop runs what is ready and   *)
(* timers expire.                                                          *)
(***************************************************************************)
LimitedConfigs == {c \in Configs : c.max_messages # 0}

\* a coroutine of the application awaits engine.start_device(d): start has
\* no suspension point, so the call runs to its end in the caller's step
await_start_device(d) ==
    /\ calls < MaxCalls
    /\ Room(1)
    /\ calls' = calls + 1
    /\ IF d \in Registered(simulations)
       THEN Commit(StartBody(Cur, SimAt(simulations, d)))
       ELSE Commit(Cur)

\* the timer or the send that the loop of simulation s waits for
Wake(s) ==
    \E t \in TaskIds :
        /\ tasks[t].sim = s
        /\ TimerFires(t) \/ SendCompletes(t, "ok")

InitAuto == MInit /\ TIdle /\ SStart(TemplateNames) /\ OIdle

NextAuto ==
    \/ \E d \in DeviceIds, c \in LimitedConfigs : add_device_simulation(d, c)
    \/ \E d \in DeviceIds : await_start_device(d)
    \/ \E d \in DeviceIds : connect(d)
    \/ \E s \in SimIds : Wake(s)
    \/ RunLoop

FairAuto ==
    /\ WF_vars(RunLoop)
    /\ \A s \in SimIds : WF_vars(Wake(s))

SpecAuto == InitAuto /\ [][NextAuto]_vars /\ FairAuto

(***************************************************************************)
(* One device whose client never completes a send.  Two simulations are    *)
(* registered and both devices connected; a coroutine of the application   *)
(* awaits start_all, stop_all and stop_device one after the other.  The    *)
(* event loop runs what is ready, and the timers and the sends of the      *)
(* other device complete.                                                  *)
(***************************************************************************)
StalledDevice == "d1"
StalledSim == Min(SimIds)

SStalled ==
    /\ azure = TRUE
    /\ dev = [d \in DeviceIds |-> [is_connected |-> TRUE, is_simulating |-> FALSE,
                                   error_count |-> 0,
                                   template_name |-> DefaultTemplate]]
    /\ \E c1 \in Configs \ LimitedConfigs, c2 \in LimitedConfigs :
           sims = [s \in SimIds |->
                     IF s = StalledSim
                     THEN [NoSim EXCEPT !.device = StalledDevice,
                                        !.burst_mode = c1.burst_mode,
                                        !.max_messages = c1.max_messages]
                     ELSE IF s = 2
                     THEN [NoSim EXCEPT !.device = "d2",
                                        !.burst_mode = c2.burst_mode,
                                        !.max_messages = c2.max_messages]
                     ELSE NoSim]
    /\ simulations = <<[id |-> StalledDevice, sim |-> StalledSim],
                       [id |-> "d2", sim |-> 2]>>
    /\ engine_running = FALSE
    /\ tasks = [t \in TaskIds |-> FreeTask]
    /\ ready = <<>>
    /\ calls = 0
    /\ emitted = {}
    /\ attempt = NoAttempt
    /\ returned = {}
    /\ quiet = [s \in SimIds |-> FALSE]

CallKinds == {"start_device", "stop_device", "start_all", "stop_all"}

\* the application's coroutine is not inside a call of the engine
CallerIdle == \A t \in TaskIds : tasks[t].kind \notin CallKinds

await_start_all == CallerIdle /\ start_all
await_stop_all == CallerIdle /\ stop_all
await_stop_device(d) == CallerIdle /\ stop_device(d)

\* the timers and sends of the devices whose client answers
LiveWake(s) == sims[s].device # StalledDevice /\ Wake(s)

\* one turn of the event loop
Turn ==
    \/ RunLoop
    \/ RunStart
    \/ RunStop
    \/ RunStopDevice
    \/ RunStartAll
    \/ RunStopAll
    \/ RunGatherCallback

InitStall == MInit /\ TIdle /\ SStalled /\ OIdle

NextStall ==
    \/ await_start_all
    \/ await_stop_all
    \/ \E d \in DeviceIds : await_stop_device(d)
    \/ \E s \in SimIds : LiveWake(s)
    \/ RunLoop
    \/ RunStart
    \/ RunStop
    \/ RunStopDevice
    \/ RunStartAll
    \/ RunStopAll
    \/ RunGatherCallback

FairStall ==
    /\ WF_vars(Turn)
    /\ \A s \in SimIds : WF_vars(LiveWake(s))

SpecStall == InitStall /\ [][NextStall]_vars /\ FairStall

(***************************************************************************)
(* One simulation without a message limit that the application starts,     *)
(* stops and starts again: the three calls are made in that order, each as *)
(* a task of its own, so that a later one can run while an earlier one is  *)
(* suspended.                                                              *)
(***************************************************************************)
RestartDevice == "d1"

register_device ==
    /\ calls = 0
    /\ \E c \in Configs \ LimitedConfigs : add_device_simulation(RestartDevice, c)

call_start ==
    /\ calls \in {1, 3}
    /\ start_device(RestartDevice)

call_stop ==
    /\ calls = 2
    /\ stop_device(RestartDevice)

NextRestart ==
    \/ register_device
    \/ call_start
    \/ call_stop
    \/ \E t \in TaskIds : TimerFires(t)
    \/ \E t \in TaskIds, o \in {"ok", "fail"} : SendCompletes(t, o)
    \/ RunLoop
    \/ RunStartDevice
    \/ RunStopDevice

\* the engine before the first call, each device connected to the hub or not
SReady ==
    /\ azure = TRUE
    /\ dev \in [DeviceIds -> {[is_connected |-> c, is_simulating |-> FALSE,
                               error_count |-> 0,
                               template_name |-> DefaultTemplate] :
                              c \in BOOLEAN}]
    /\ sims = [s \in SimIds |-> NoSim]
    /\ simulations = <<>>
    /\ engine_running = FALSE
    /\ tasks = [t \in TaskIds |-> FreeTask]
    /\ ready = <<>>
    /\ calls = 0
    /\ emitted = {}
    /\ attempt = NoAttempt
    /\ returned = {}
    /\ quiet = [s \in SimIds |-> FALSE]

InitRestart == MInit /\ TIdle /\ SReady /\ OIdle
SpecRestart == InitRestart /\ [][NextRestart]_vars

(***************************************************************************)
(* Claims about the MetricsCollector                                       *)
(***************************************************************************)
Entries == Deref(device_metrics)

ConnectedCount == Cardinality({d \in DOMAIN Entries : IsConnected(Entries[d])})
RunningCount == Cardinality({d \in DOMAIN Entries : IsRunning(Entries[d])})

\* the sum of one field over the entries of S
RECURSIVE SumField(_, _, _)
SumField(f, field, S) ==
    IF S = {} THEN 0
    ELSE LET x == CHOOSE y \in S : TRUE
         IN f[x][field] + SumField(f, field, S \ {x})

\* C1: in every reachable state connected_devices equals the number of
\* device entries whose connection_status is connected, and active_devices
\* the number whose simulation_status is running (so that an update that
\* repeats the current status moves neither counter)
C1_CountersMatchEntries ==
    /\ system_metrics.connected_devices = ConnectedCount
    /\ system_metrics.active_devices = RunningCount

C1_Witness ==
    /\ Cardinality(DOMAIN device_metrics) = 2
    /\ system_metrics.connected_devices = 1
    /\ system_metrics.active_devices = 2
    /\ nSent + nErr > 0

\* C5: after N recorded sends and M recorded errors since construction or
\* the last reset, in any order and on any devices, the export reports
\* total_messages = N and total_errors = M, and these totals are the sums
\* of the per-device message_count and error_count of the same export
C5_ExportTotals ==
    LET e == ExportResult
        dm == Deref(e.device_metrics)
    IN /\ e.system_metrics.total_messages = nSent
       /\ e.system_metrics.total_errors = nErr
       /\ SumField(dm, "message_count", DOMAIN dm) = e.system_metrics.total_messages
       /\ SumField(dm, "error_count", DOMAIN dm) = e.system_metrics.total_errors

C5_Witness ==
    /\ nSent >= 1
    /\ nErr >= 1
    /\ ExportResult.system_metrics.total_messages = nSent
    /\ \E d1, d2 \in DOMAIN ExportResult.device_metrics :
          /\ d1 # d2
          /\ Entries[d1].message_count >= 1
          /\ Entries[d2].error_count >= 1

\* C6: what a caller reads in a snapshot returned by export_metrics stays
\* what it was when the snapshot was taken, whatever is recorded, updated
\* or reset afterwards
C6_SnapshotIsDeepCopy ==
    snapshot.taken => Deref(snapshot.device_metrics) = frozen

AllReturned == \A t \in ThreadIds : threads[t].pc = "done"

\* C4: once the concurrent calls have all returned, no update is lost:
\* total_messages is the number of record_message_sent calls made and the
\* per-device message_count values add up to it
C4_NoLostUpdate ==
    AllReturned =>
       /\ system_metrics.total_messages = nSent
       /\ SumField(Entries, "message_count", DOMAIN Entries) = nSent

(***************************************************************************)
(* DeviceSimulation and SimulationEngine: properties                       *)
(***************************************************************************)
\* the loop tasks of simulation s that are not finished
LoopsOf(s) == {t \in TaskIds : tasks[t].kind = "loop" /\ tasks[t].sim = s}

Sleeping(t) == tasks[t].kind = "loop" /\ tasks[t].pc \in {"sleep", "burst_sleep"}

\* the step ends a send of task t that was awaiting the client
SendEnds(t) ==
    /\ tasks[t].kind = "loop"
    /\ tasks[t].pc = "sending"
    /\ ~(tasks'[t].kind = "loop" /\ tasks'[t].pc = "sending")

SendEvents(s) == {<<"MESSAGE_SENT", s>>, <<"MESSAGE_FAILED", s>>}

\* C2: once a stop of simulation s has returned and until a start of s is
\* called, message_count of s does not change and no MESSAGE_SENT or
\* MESSAGE_FAILED is emitted for it; and every send that was awaiting the
\* client ends counted, as a success or as a failure.
C2_QuietAfterStop ==
    [][/\ \A s \in SimIds :
            quiet[s] /\ quiet'[s] =>
                /\ sims'[s].message_count = sims[s].message_count
                /\ emitted' \cap SendEvents(s) = {}
       /\ \A t \in TaskIds :
            SendEnds(t) =>
                /\ attempt'.sim = tasks[t].sim
                /\ attempt'.result \in {"ok", "fail"}]_vars

\* C3: when a stop_all that no start interleaved with has returned, no
\* simulation is running and no loop task is alive.
C3_StopAllQuiesces ==
    <<"stop_all", NoSimId, FALSE, TRUE>> \in returned =>
        /\ \A s \in SimIds : ~sims[s].is_running
        /\ \A t \in TaskIds : tasks[t].kind # "loop"

\* C8: a send attempt that reports failure leaves is_running and
\* message_count of the simulation as they were, and the loop task that made
\* it is alive, suspended in the sleep that precedes its next send.
C8_FailedSendNotFatal ==
    [][attempt'.result = "fail" =>
          /\ sims'[attempt'.sim].is_running = sims[attempt'.sim].is_running
          /\ sims'[attempt'.sim].message_count = sims[attempt'.sim].message_count
          /\ ready # <<>>
          /\ Head(ready) \in LoopsOf(attempt'.sim)
          /\ tasks'[Head(ready)].kind = "loop"
          /\ tasks'[Head(ready)].pc \in {"sleep", "burst_sleep"}]_vars

\* a running simulation has just had a send fail (the client raised), and
\* its loop sleeps towards the next one
C8_Witness ==
    /\ attempt.result = "fail"
    /\ sims[attempt.sim].is_running
    /\ dev[sims[attempt.sim].device].error_count > 0
    /\ \E t \in LoopsOf(attempt.sim) : Sleeping(t)

\* C9: every send attempt that reports failure adds exactly 1 to the
\* device's error_count and emits MESSAGE_FAILED for it.
C9_FailedSendCounted ==
    [][attempt'.result = "fail" =>
          /\ dev'[sims[attempt'.sim].device].error_count =
                 dev[sims[attempt'.sim].device].error_count + 1
          /\ <<"MESSAGE_FAILED", attempt'.sim>> \in emitted']_vars

Stopped(s) == <<"SIMULATION_STOPPED", s>>

\* C10: a stop that finds the simulation not running changes nothing of the
\* simulation and its device and emits nothing; a stop that found it running
\* emits SIMULATION_STOPPED once when it returns, with is_running false if
\* no start came in between; SIMULATION_STOPPED is emitted by nothing else;
\* and from the return of a stop until a start is called is_running is
\* false, so that a second stop in a row is one that finds it not running.
C10_StopIdempotent ==
    [][\A s \in SimIds :
         /\ <<"stop", s, FALSE, TRUE>> \in returned' =>
                /\ sims'[s] = sims[s]
                /\ dev' = dev
                /\ emitted' = {}
         /\ <<"stop", s, TRUE, TRUE>> \in returned' =>
                /\ ~sims'[s].is_running
                /\ Stopped(s) \in emitted'
         /\ <<"stop", s, TRUE, FALSE>> \in returned' => Stopped(s) \in emitted'
         /\ Stopped(s) \in emitted' =>
                \E c \in BOOLEAN : <<"stop", s, TRUE, c>> \in returned'
         /\ <<"stop", s, FALSE, FALSE>> \notin returned'
         /\ quiet'[s] => ~sims'[s].is_running]_vars

\* a stop has just returned from a simulation that was not running, after
\* an earlier stop had ended the run in which it sent a message
C10_Witness ==
    \E s \in SimIds :
        /\ <<"stop", s, FALSE, TRUE>> \in returned
        /\ quiet[s]
        /\ sims[s].max_messages = 0
        /\ sims[s].message_count > 0

\* every send of simulation s succeeds
AlwaysSucceeds(s) == ~azure \/ dev[sims[s].device].is_connected

\* s runs with a limit, burst_mode off and a send that always succeeds
Limited(s) ==
    /\ sims[s].is_running
    /\ sims[s].max_messages >= 1
    /\ ~sims[s].burst_mode
    /\ AlwaysSucceeds(s)

StoppedAtLimit(s) ==
    /\ sims[s].device # "none"
    /\ ~sims[s].is_running
    /\ sims[s].max_messages >= 1
    /\ sims[s].message_count = sims[s].max_messages

\* C7: a simulation that runs with max_messages = N >= 1, burst_mode off and
\* a send that always succeeds eventually is not running, with nothing
\* having called stop, and when it stops running its message_count is N.
C7_SelfStopsAtLimit ==
    /\ \A s \in SimIds : Limited(s) ~> StoppedAtLimit(s)
    /\ [][\A s \in SimIds :
            Limited(s) /\ ~sims'[s].is_running =>
                sims'[s].message_count = sims[s].max_messages]_vars

\* the loop tasks of simulation s among the tasks tk
LoopsIn(tk, s) == {t \in TaskIds : tk[t].kind = "loop" /\ tk[t].sim = s}

\* the step returns from a start of s that found is_running = wr
StartReturned(s, wr) ==
    \/ <<"start", s, wr, TRUE>> \in returned'
    \/ <<"start_device", s, wr, TRUE>> \in returned'

\* C11: a start that finds the simulation running leaves the simulation
\* (start_time and message_count included), its loop tasks and the devices
\* as they were and emits nothing; a start that finds it not running sets
\* is_running, records start_time, creates exactly one loop task, held as
\* _simulation_task, and emits SIMULATION_STARTED once.
C11_StartNoOpWhenRunning ==
    [][\A s \in SimIds :
         /\ StartReturned(s, TRUE) =>
                /\ sims'[s] = sims[s]
                /\ LoopsIn(tasks', s) = LoopsIn(tasks, s)
                /\ dev' = dev
                /\ emitted' = {}
         /\ StartReturned(s, FALSE) =>
                /\ sims'[s].is_running
                /\ sims'[s].start_time = calls
                /\ sims'[s].message_count = sims[s].message_count
                /\ \E t \in TaskIds \ LoopsIn(tasks, s) :
                      /\ LoopsIn(tasks', s) = LoopsIn(tasks, s) \cup {t}
                      /\ sims'[s].task = t
                      /\ tasks'[t].pc = "new"
                /\ emitted' = {<<"SIMULATION_STARTED", s>>}]_vars

\* a start_device has just returned from a simulation that was running
\* already, and the simulation still has its one loop task
C11_Witness ==
    \E s \in SimIds :
        /\ <<"start_device", s, TRUE, TRUE>> \in returned
        /\ sims[s].is_running
        /\ sims[s].start_time # NoTime
        /\ Cardinality(LoopsOf(s)) = 1

\* C12: when remove_device_simulation has returned from a simulation that
\* was running, that simulation is not running and has no loop task left.
C12_RemoveStopsFirst ==
    [][\A s \in SimIds :
         <<"remove", s, TRUE, TRUE>> \in returned' =>
             /\ ~sims'[s].is_running
             /\ LoopsIn(tasks', s) = {}]_vars

\* the entries of the registry for device d
EntriesOf(regs, d) == {k \in 1 .. Len(regs) : regs[k].id = d}

\* the step is add_device_simulation(d, config) creating simulation s, with
\* config.burst_mode = b and config.max_messages set iff m
Added(s, b, m) == <<"add", s, b, m>> \in returned'

UnknownIdReturned ==
    \E k \in {"start_device", "stop_device", "remove"} :
        <<k, NoSimId, FALSE, TRUE>> \in returned'

\* C14: start_device, stop_device and remove_device_simulation with an id
\* that is not registered leave the registry, every registered simulation,
\* every loop task and every device as they were and emit nothing.
C14_UnknownIdNoOp ==
    [][UnknownIdReturned =>
          /\ simulations' = simulations
          /\ \A s \in RegisteredSims(simulations) : sims'[s] = sims[s]
          /\ \A t \in TaskIds : tasks[t].kind = "loop" => tasks'[t] = tasks[t]
          /\ dev' = dev
          /\ engine_running' = engine_running
          /\ emitted' = {}]_vars

\* a stop_device for an unregistered id has just returned while another
\* device's simulation runs
C14_Witness ==
    /\ <<"stop_device", NoSimId, FALSE, TRUE>> \in returned
    /\ \E s \in RegisteredSims(simulations) : sims[s].is_running

\* the call that task t runs has returned
Over(t) == tasks[t].kind = "free"

\* C15: with a device whose send never resolves, every start_all, stop_all
\* and stop_device call returns and every stop of a simulation ends (that
\* of the stalled one included); when start_all returns the other
\* simulation runs or has reached its limit, when stop_all returns no
\* registered simulation runs or has a loop task; and the other simulation,
\* while it runs below its limit, goes on to another send attempt.
C15_StallIsLocal ==
    /\ \A t \in TaskIds :
           (tasks[t].kind \in CallKinds \cup {"stop", "start"}) ~> Over(t)
    /\ [][/\ (\E c \in BOOLEAN : <<"start_all", NoSimId, FALSE, c>> \in returned') =>
                \A s \in RegisteredSims(simulations) \ {StalledSim} :
                    sims'[s].is_running \/ LimitReached(sims'[s])
          /\ (\E c \in BOOLEAN : <<"stop_all", NoSimId, FALSE, c>> \in returned') =>
                \A s \in RegisteredSims(simulations) :
                    ~sims'[s].is_running /\ LoopsIn(tasks', s) = {}]_vars
    /\ \A s \in SimIds \ {StalledSim} :
           (sims[s].is_running /\ ~LimitReached(sims[s]))
               ~> (attempt.sim = s \/ ~sims[s].is_running)

\* a stop of the stalled simulation has returned after cancelling its loop,
\* the stalled device has delivered nothing and the other one has
C15_Witness ==
    /\ \E c \in BOOLEAN : <<"stop", StalledSim, TRUE, c>> \in returned
    /\ sims[StalledSim].message_count = 0
    /\ \E s \in SimIds \ {StalledSim} : sims[s].message_count > 0

NoDuplicates(q) == Cardinality(Range(q)) = Len(q)

\* C16: while an emit runs, the handlers invoked so far are the first ones
\* of the list as it was at the time of the emit, each once and in order,
\* whoever raised; nothing has propagated; when emit has returned all of
\* them have been invoked and the emitter's state change is kept.
C16_EmitIsolatesFailures ==
    /\ NoDuplicates(bus.at_emit)
    /\ bus.pc \in {"emitting", "returned", "raised"} =>
           /\ Len(bus.log) <= Len(bus.at_emit)
           /\ bus.log = SubSeq(bus.at_emit, 1, Len(bus.log))
           /\ bus.todo = SubSeq(bus.at_emit, Len(bus.log) + 1, Len(bus.at_emit))
    /\ ~bus.propagated
    /\ bus.pc # "raised"
    /\ bus.pc = "returned" => bus.log = bus.at_emit /\ bus.changed

\* an emit has returned after its first handler raised and a later one, which
\* the first has meanwhile unsubscribed, was invoked
C16_Witness ==
    /\ bus.pc = "returned"
    /\ Len(bus.log) >= 2
    /\ bus.log[1] \in bus.failed
    /\ bus.log[Len(bus.log)] \notin Range(bus.handlers)

\* task t is the loop of a simulation in burst mode and the step ends one of
\* its iterations: the loop goes to the sleep of line 107
BurstIterationEnds(t) ==
    /\ tasks[t].kind = "loop"
    /\ sims[tasks[t].sim].burst_mode
    /\ tasks[t].pc # "sleep"
    /\ tasks'[t].kind = "loop"
    /\ tasks'[t].pc = "sleep"

\* C17: an iteration of the loop of a simulation in burst mode has called
\* send_message exactly BurstCount times when it ends, and every send that
\* succeeds adds exactly one to that simulation's message_count.
C17_BurstSendsB ==
    [][/\ \A t \in TaskIds :
             BurstIterationEnds(t) => tasks'[t].tries = BurstCount
       /\ \A s \in SimIds :
             attempt'.sim = s /\ attempt'.result = "ok" =>
                 sims'[s].message_count = sims[s].message_count + 1]_vars

\* the entries of q are in the order of their timestamps
InsertionOrdered(q) ==
    \A i \in 1 .. Len(q), j \in 1 .. Len(q) : i < j => q[i][1] <= q[j][1]

\* q2 is q after one append of e to a buffer of capacity HistorySize: e is
\* last, before it come the entries of q in their order, without the oldest
\* one if q was full
AppendedFifo(q, q2, e) ==
    /\ Len(q2) = IF Len(q) < HistorySize THEN Len(q) + 1 ELSE HistorySize
    /\ q2[Len(q2)] = e
    /\ \A k \in 1 .. Len(q2) - 1 : q2[k] = q[Len(q) - (Len(q2) - 1) + k]

\* C18: neither history buffer ever holds more than HistorySize entries,
\* both are in insertion order, and every record_message_sent or
\* record_message_error appends its entry at the end, dropping exactly the
\* oldest entry when the buffer was full.
C18_HistoryBoundedFifo ==
    /\ [](/\ Len(message_history) <= HistorySize
          /\ Len(error_history) <= HistorySize
          /\ InsertionOrdered(message_history)
          /\ InsertionOrdered(error_history))
    /\ [][/\ nSent' = nSent + 1 =>
                AppendedFifo(message_history, message_history', <<now, 1>>)
          /\ nErr' = nErr + 1 =>
                AppendedFifo(error_history, error_history', <<now, 1>>)]_vars

\* more messages were recorded than the buffer holds, the buffer is full and
\* its entries are from different times
C18_Witness ==
    /\ nSent > HistorySize
    /\ Len(message_history) = HistorySize
    /\ message_history[1][1] < message_history[HistorySize][1]

\* the step is a reset_metrics that changes something: only reset removes
\* device entries or moves start_time
ResetStep ==
    \/ device_metrics # EmptyMap /\ device_metrics' = EmptyMap
    \/ start_time' # start_time

\* C19: reset_metrics leaves the collector as a newly constructed one is at
\* that time: no device entries, the system metrics at their initial values,
\* both histories empty, start_time the time of the reset (uptime 0).
C19_ResetIsFresh ==
    [][ResetStep =>
          /\ now' = now
          /\ device_metrics' = EmptyMap
          /\ system_metrics' = InitialSystemMetrics
          /\ message_history' = <<>>
          /\ error_history' = <<>>
          /\ start_time' = now
          /\ SystemMetricsView'.uptime_seconds = 0
          /\ SystemMetricsView'.total_devices = 0]_vars

\* the collector has been reset at time 1 after a message was recorded at
\* that time (reset leaves _last_update alone)
C19_Witness ==
    /\ last_update > 0
    /\ start_time = last_update
    /\ now = start_time
    /\ device_metrics = EmptyMap
    /\ message_history = <<>>
    /\ system_metrics = InitialSystemMetrics

\* the step generates the value of the field
Generates == gen.pc = "idle" /\ gen'.pc = "generated"

\* C20: for a linear field whose max_value is set, the value generated is
\* min_value (or 0) + step_size (or 0.1) * step, as an int or rounded to two
\* decimals, while that sum does not exceed max_value, and min_value (or 0),
\* with the step counter back at 0, as soon as it does.
C20_LinearWraps ==
    [][Generates /\ gen.field.max_value.set =>
          LET f == gen.field
              running == StartValue(f) + StepOf(f) * gen.counter
          IN IF running <= f.max_value.v
             THEN /\ gen'.value = Converted(f, running)
                  /\ gen'.counter = gen.counter
             ELSE /\ gen'.value = Converted(f, StartValue(f))
                  /\ gen'.counter = 0]_vars

\* C26: a simulation whose max_messages is set never has a message_count
\* above it.
C26_CountWithinLimit ==
    \A s \in SimIds :
        sims[s].max_messages # 0 => sims[s].message_count <= sims[s].max_messages

\* the last of the three calls, a start, has been made and no call is
\* still under way
RestartOver == calls = 4 /\ CallerIdle

\* C25: once start, stop and start have all returned, the simulation is
\* running: is_running and device.is_simulating are set and the simulation
\* has a loop task.
C25_StartNotUndone ==
    RestartOver =>
        \A s \in RegisteredSims(simulations) :
            /\ sims[s].is_running
            /\ dev[sims[s].device].is_simulating
            /\ LoopsOf(s) # {}

\* C27: a simulation emits SIMULATION_STARTED only when its last event of
\* the two was SIMULATION_STOPPED or it has emitted neither yet, and
\* SIMULATION_STOPPED only when its last one was SIMULATION_STARTED.
C27_EventsAlternate ==
    [][\A s \in SimIds :
         /\ <<"SIMULATION_STARTED", s>> \in emitted' =>
                sims[s].last_event # "SIMULATION_STARTED"
         /\ <<"SIMULATION_STOPPED", s>> \in emitted' =>
                sims[s].last_event = "SIMULATION_STARTED"]_vars

\* no start or stop of any simulation is under way
NoStartStopUnderWay ==
    \A t \in TaskIds : tasks[t].kind \notin CallKinds \cup {"start", "stop"}

\* the simulations made for device d that still exist
SimsFor(d) == {s \in SimIds : sims[s].device = d}

\* C28: while no start or stop is under way, a device that has one
\* simulation has is_simulating set exactly when that simulation has
\* is_running set and a loop task.
C28_FlagMirrorsSimulation ==
    NoStartStopUnderWay =>
        \A d \in DeviceIds : \A s \in SimsFor(d) :
            SimsFor(d) = {s} =>
                (dev[d].is_simulating <=> (sims[s].is_running /\ LoopsOf(s) # {}))

\* the loop tasks that send for device d
LoopsFor(d) ==
    {t \in TaskIds : /\ tasks[t].kind = "loop"
                     /\ sims[tasks[t].sim].device = d}

\* C22: no device id has two simulation loops, and so never two sends in
\* flight at once.
C22_OneSenderPerDevice ==
    \A d \in DeviceIds :
        /\ Cardinality(LoopsFor(d)) <= 1
        /\ Cardinality({t \in LoopsFor(d) : tasks[t].pc = "sending"}) <= 1

\* a step of one of the read operations of the collector
ReadStep == (\E d \in DeviceIds : get_device_metrics(d)) \/ export_metrics

\* what the collector holds: the entries by device id, the system
\* metrics with total_devices, and both histories
Held ==
    <<Deref(device_metrics), system_metrics, SystemMetricsView.total_devices,
      message_history, error_history>>

\* C29: a read operation (get_device_metrics for any id, recorded or not,
\* and export_metrics, which calls get_system_metrics and
\* get_historical_data) leaves the collector as it was.
C29_ReadsChangeNothing == [][ReadStep => Held' = Held]_vars

\* how many times handler h occurs in q
Times(q, h) == Cardinality({k \in 1 .. Len(q) : q[k] = h})

\* C30: the handlers of an event type form a set.  The list never holds a
\* handler twice, so subscribing a subscribed handler again leaves the list
\* as it was and an emit that has returned invoked every handler of the list
\* once; after an unsubscribe the handler is not in the list and the others
\* keep their places; unsubscribing a handler that is not subscribed, or
\* from an empty list, leaves the list as it was.
C30_SubscriptionIsSet ==
    /\ NoDuplicates(bus.handlers)
    /\ bus.last.op = "subscribe" =>
           /\ bus.last.h \in Range(bus.handlers)
           /\ bus.last.h \in Range(bus.last.before) =>
                  bus.handlers = bus.last.before
    /\ bus.last.op = "unsubscribe" =>
           /\ bus.last.h \notin Range(bus.handlers)
           /\ bus.handlers = SelectSeq(bus.last.before,
                                       LAMBDA x : x # bus.last.h)
           /\ bus.last.h \notin Range(bus.last.before) =>
                  bus.handlers = bus.last.before
    /\ bus.pc = "returned" =>
           \A h \in Handlers :
               Times(bus.log, h) = IF h \in Range(bus.at_emit) THEN 1 ELSE 0

\* a handler subscribed a second time has been invoked by an emit that
\* returned
C30_Witness ==
    /\ bus.pc = "returned"
    /\ bus.last.op = "subscribe"
    /\ bus.last.h \in Range(bus.last.before)
    /\ bus.last.h \in Range(bus.log)
    /\ Len(bus.log) >= 2

\* a handler that was not subscribed has been unsubscribed while others were
C30_WitnessAbsent ==
    /\ bus.last.op = "unsubscribe"
    /\ bus.last.h \notin Range(bus.last.before)
    /\ bus.handlers # <<>>

\* the fields of the call of template i, running or returned, were all
\* evaluated at the step value the call began with
SameStep(t) == \A k \in 1 .. Len(t.at) : t.at[k] = t.base

\* C23: the step counter of a template never decreases; every field of one
\* call is evaluated at the same step value; a call that has returned has
\* advanced the counter once, and the k-th call evaluated its fields at
\* step k - 1.
C23_StepCounterAdvancesOnce ==
    [][\A i \in Owners :
          /\ tpl'.inst[i].counter >= tpl.inst[i].counter
          /\ SameStep(tpl'.inst[i])
          /\ tpl'.inst[i].done =>
                 /\ tpl'.inst[i].counter = tpl'.inst[i].base + 1
                 /\ tpl'.inst[i].base = tpl'.inst[i].calls - 1]_vars

UnknownTypes == {"double"}

\* the template has a field of a data type the generator does not know
HasUnknownField ==
    \E k \in 1 .. Len(tpl.fields) : tpl.fields[k].data_type \in UnknownTypes

\* the message template i returned has every field, null for the fields of
\* unknown type and a value for the others, and a timestamp
MessageComplete(t) ==
    /\ \A k \in 1 .. Len(tpl.fields) :
          /\ tpl.fields[k].name \in DOMAIN t.message
          /\ t.message[tpl.fields[k].name].set
                 <=> tpl.fields[k].data_type \notin UnknownTypes
    /\ "timestamp" \in DOMAIN t.message

\* C21: a call of generate_message on a template with a field of unknown
\* data type returns a message that has null for that field, a value for
\* every other field and a timestamp, and leaves the step counter one above
\* what the call found.
C21_UnknownTypeYieldsNull ==
    HasUnknownField =>
        \A i \in Owners :
            tpl.inst[i].done =>
                /\ MessageComplete(tpl.inst[i])
                /\ tpl.inst[i].counter = tpl.inst[i].base + 1

\* the part of C21 about the message alone
MessageAlwaysComplete ==
    \A i \in Owners : tpl.inst[i].done => MessageComplete(tpl.inst[i])

====
